---- MODULE Spec2Model ----
(***************************************************************************)
(* Model of curved_path_calculation.py: calculate_path_segment (the        *)
(* turn-rate-limited stepper) and generate_complete_path (the two-pass     *)
(* reconciliation of a forward and a backward segment).                    *)
(*                                                                         *)
(* Arithmetic.  Headings are fixed-point integers, Scale units per degree, *)
(* so 0.1 degree is Scale/10 units and the tolerance test                  *)
(* abs(x) < 0.1 is written 10*Abs(x) < Scale.  Coordinates are whole       *)
(* metres in a planar frame (lat = northing, lon = easting).               *)
(*                                                                         *)
(* Geodesic library (geographiclib, not part of the repository).           *)
(* Inverse()['s12'] is the Chebyshev distance of the planar frame;         *)
(* Inverse()['azi1'] is left unconstrained: every step may receive any     *)
(* bearing of Bearings; Direct() moves by exactly the requested distance   *)
(* along the compass octant of the (internally normalised) heading, so     *)
(* that s12(p, Direct(p, h, s)) = s and Direct(p, h, 0) = p.               *)
(***************************************************************************)
EXTENDS Integers, Sequences, FiniteSets, TLC

\* ---------------------------------------------------------------- bounds
Scale == 20      \* heading units per degree (resolution 0.05 degree)
Spread == 300    \* offset, in metres, of the alternative end points

\* ------------------------------------------------------ program constants
LAT_A == 0
LON_A == 0
LAT_B == 600
LON_B == 0 - 600
MAX_TURN_RATE == 3
POINT_INTERVAL_METERS == 300

Deg(d) == d * Scale

\* ------------------------------------------------------------- helpers
Abs(x) == IF x < 0 THEN 0 - x ELSE x
Sign(x) == IF x > 0 THEN 1 ELSE IF x < 0 THEN 0 - 1 ELSE 0
Min(a, b) == IF a <= b THEN a ELSE b
Max(a, b) == IF a >= b THEN a ELSE b
Last(s) == s[Len(s)]
Reverse(s) == [i \in 1..Len(s) |-> s[Len(s) + 1 - i]]

\* ----------------------------------------------------- geodesic library
InverseS12(lat1, lon1, lat2, lon2) == Max(Abs(lat2 - lat1), Abs(lon2 - lon1))

Bearings == {Deg(2), Deg(10), Deg(180), Deg(0 - 170)}

Octant(h) == (((h % Deg(360)) * 2 + Deg(45)) \div Deg(90)) % 8
DLat == <<1, 1, 0, 0 - 1, 0 - 1, 0 - 1, 0, 1>>
DLon == <<0, 1, 1, 1, 0, 0 - 1, 0 - 1, 0 - 1>>
DirectLat2(lat1, azi1, s12) == lat1 + s12 * DLat[Octant(azi1) + 1]
DirectLon2(lon1, azi1, s12) == lon1 + s12 * DLon[Octant(azi1) + 1]

\* ------------------------------------------------- calculate_path_segment
NPointsCeil(total) == Max(1, (total + POINT_INTERVAL_METERS - 1) \div POINT_INTERVAL_METERS)
NPoints(total) == Max(1, total \div POINT_INTERVAL_METERS)

StepDistance(total, n) == total \div (2 * n)

InitialListEmpty(x) == << >>
InitialList(x) == <<x>>

RangeOffByOne(i, n) == i <= n
InRange(i, n) == i < n

HeadingChangeUpperClosed(target, h) == Deg(180) - ((h - target + Deg(180)) % Deg(360))
HeadingChange(target, h) == ((target - h + Deg(180)) % Deg(360)) - Deg(180)

HeadingStepUnclamped(hc) == hc
HeadingStep(hc) == Min(Deg(MAX_TURN_RATE), Abs(hc)) * Sign(hc)

CloseNever(h, e) == FALSE
CloseEnough(h, e) == 10 * Abs(h - e) < Scale

\* ------------------------------------------------- generate_complete_path
ReverseHeading(h) == (h + Deg(180)) % Deg(360)

EndOfPhase2(const, coords) == IF const = coords[1] THEN Last(coords) ELSE coords[1]

CombineNoReverse(p1, p2) == p1 \o p2
Combine(p1, p2) == p1 \o Reverse(p2)

\* ------------------------------------------------------------ inputs
EndPoints == {<<LAT_A, LON_A>>, <<LAT_B, LON_B>>, <<LAT_B + Spread, LON_B>>,
              <<LAT_B, LON_B + Spread>>, <<LAT_B + Spread, LON_B + Spread>>}
StartHeadings == {Deg(0), Deg(90), Deg(359)}
EndHeadings == {Deg(2) + 1, Deg(90)}

VARIABLES
    start_lat, start_lon, start_heading, end_lat, end_lon, end_heading,
    pc, calls,
    s_start_lat, s_start_lon, s_start_heading, s_end_lat, s_end_lon, s_end_heading,
    total_distance, n_points, step_distance, lats, lons, heading, iter,
    target_heading, heading_change, headings,
    phase_1_lats, phase_1_lons, phase_2_lats, phase_2_lons,
    end_of_phase_2_lat, end_of_phase_2_lon,
    phase_1_lats_recalculated, phase_1_lons_recalculated,
    phase_2_lats_recalculated, phase_2_lons_recalculated,
    full_lats, full_lons

args == <<start_lat, start_lon, start_heading, end_lat, end_lon, end_heading>>
segargs == <<s_start_lat, s_start_lon, s_start_heading, s_end_lat, s_end_lon, s_end_heading>>
seglocals == <<total_distance, n_points, step_distance, lats, lons, heading, iter,
               target_heading, heading_change, headings>>
pass1 == <<phase_1_lats, phase_1_lons, phase_2_lats, phase_2_lons>>
junction == <<end_of_phase_2_lat, end_of_phase_2_lon>>
pass2 == <<phase_1_lats_recalculated, phase_1_lons_recalculated,
           phase_2_lats_recalculated, phase_2_lons_recalculated>>
full == <<full_lats, full_lons>>
vars == <<args, pc, calls, segargs, seglocals, pass1, junction, pass2, full>>

Init ==
    /\ start_lat = LAT_A /\ start_lon = LON_A
    /\ start_heading \in StartHeadings
    /\ \E b \in EndPoints : end_lat = b[1] /\ end_lon = b[2]
    /\ end_heading \in EndHeadings
    /\ pc = "call" /\ calls = 0
    /\ s_start_lat = 0 /\ s_start_lon = 0 /\ s_start_heading = 0
    /\ s_end_lat = 0 /\ s_end_lon = 0 /\ s_end_heading = 0
    /\ total_distance = 0 /\ n_points = 0 /\ step_distance = 0
    /\ lats = << >> /\ lons = << >> /\ heading = 0 /\ iter = 0
    /\ target_heading = 0 /\ heading_change = 0 /\ headings = << >>
    /\ phase_1_lats = << >> /\ phase_1_lons = << >>
    /\ phase_2_lats = << >> /\ phase_2_lons = << >>
    /\ end_of_phase_2_lat = 0 /\ end_of_phase_2_lon = 0
    /\ phase_1_lats_recalculated = << >> /\ phase_1_lons_recalculated = << >>
    /\ phase_2_lats_recalculated = << >> /\ phase_2_lons_recalculated = << >>
    /\ full_lats = << >> /\ full_lons = << >>

\* Arguments of the k-th call of calculate_path_segment made by
\* generate_complete_path.
CallArgs(k) ==
    IF k = 1 THEN <<start_lat, start_lon, start_heading, end_lat, end_lon, end_heading>>
    ELSE IF k = 2 THEN <<end_lat, end_lon, ReverseHeading(end_heading),
                         Last(phase_1_lats), Last(phase_1_lons), end_heading>>
    ELSE IF k = 3 THEN <<start_lat, start_lon, start_heading,
                         end_of_phase_2_lat, end_of_phase_2_lon, end_heading>>
    ELSE <<end_lat, end_lon, ReverseHeading(end_heading),
           Last(phase_1_lats_recalculated), Last(phase_1_lons_recalculated), end_heading>>

\* Entry of calculate_path_segment up to the loop header.
CallSegment ==
    /\ pc = "call"
    /\ LET a == CallArgs(calls + 1)
           total == InverseS12(a[1], a[2], a[4], a[5])
           n == NPoints(total)
       IN /\ calls' = calls + 1
          /\ s_start_lat' = a[1] /\ s_start_lon' = a[2] /\ s_start_heading' = a[3]
          /\ s_end_lat' = a[4] /\ s_end_lon' = a[5] /\ s_end_heading' = a[6]
          /\ total_distance' = total
          /\ n_points' = n
          /\ step_distance' = StepDistance(total, n)
          /\ lats' = InitialList(a[1]) /\ lons' = InitialList(a[2])
          /\ heading' = a[3]
          /\ iter' = 0
          /\ target_heading' = 0 /\ heading_change' = 0 /\ headings' = << >>
          /\ pc' = IF InRange(0, n) THEN "loop" ELSE "ret"
    /\ UNCHANGED <<args, pass1, junction, pass2, full>>

\* One iteration of the for loop, up to and including the break test and
\* the test of the loop header for the next iteration.
Step ==
    /\ pc = "loop"
    /\ \E azi1 \in Bearings :
         LET hc == HeadingChange(azi1, heading)
             h == heading + HeadingStep(hc)
         IN /\ target_heading' = azi1
            /\ heading_change' = hc
            /\ heading' = h
            /\ headings' = Append(headings, h)
            /\ lats' = Append(lats, DirectLat2(Last(lats), h, step_distance))
            /\ lons' = Append(lons, DirectLon2(Last(lons), h, step_distance))
            /\ iter' = iter + 1
            /\ pc' = IF CloseEnough(h, s_end_heading) \/ ~InRange(iter + 1, n_points)
                     THEN "ret" ELSE "loop"
    /\ UNCHANGED <<args, calls, segargs, total_distance, n_points, step_distance,
                   pass1, junction, pass2, full>>

ReturnPhase1 ==
    /\ pc = "ret" /\ calls = 1
    /\ phase_1_lats' = lats /\ phase_1_lons' = lons
    /\ pc' = "call"
    /\ UNCHANGED <<args, calls, segargs, seglocals, phase_2_lats, phase_2_lons,
                   junction, pass2, full>>

ReturnPhase2 ==
    /\ pc = "ret" /\ calls = 2
    /\ phase_2_lats' = lats /\ phase_2_lons' = lons
    /\ end_of_phase_2_lat' = EndOfPhase2(LAT_B, lats)
    /\ end_of_phase_2_lon' = EndOfPhase2(LON_B, lons)
    /\ pc' = "call"
    /\ UNCHANGED <<args, calls, segargs, seglocals, phase_1_lats, phase_1_lons,
                   pass2, full>>

ReturnPhase1Recalculated ==
    /\ pc = "ret" /\ calls = 3
    /\ phase_1_lats_recalculated' = lats /\ phase_1_lons_recalculated' = lons
    /\ pc' = "call"
    /\ UNCHANGED <<args, calls, segargs, seglocals, pass1, junction,
                   phase_2_lats_recalculated, phase_2_lons_recalculated, full>>

ReturnPhase2Recalculated ==
    /\ pc = "ret" /\ calls = 4
    /\ phase_2_lats_recalculated' = lats /\ phase_2_lons_recalculated' = lons
    /\ full_lats' = Combine(phase_1_lats_recalculated, lats)
    /\ full_lons' = Combine(phase_1_lons_recalculated, lons)
    /\ pc' = "done"
    /\ UNCHANGED <<args, calls, segargs, seglocals, pass1, junction,
                   phase_1_lats_recalculated, phase_1_lons_recalculated>>

Next ==
    \/ CallSegment
    \/ Step
    \/ ReturnPhase1
    \/ ReturnPhase2
    \/ ReturnPhase1Recalculated
    \/ ReturnPhase2Recalculated

Spec == Init /\ [][Next]_vars

\* The program is a single synchronous thread: whenever a step is possible
\* it is eventually taken.
FairSpec == Spec /\ WF_vars(Next)

TypeOK ==
    /\ pc \in {"call", "loop", "ret", "done"}
    /\ calls \in 0..4
    /\ Len(lats) = Len(lons)
    /\ iter = Len(headings)
\* ----------------------------------------------------------- properties
WithinTolerance(h, e) == 10 * Abs(h - e) < Scale
StepBudget(total) == Max(1, total \div POINT_INTERVAL_METERS)
InSegment == pc \in {"loop", "ret"}
Degenerate == start_lat = end_lat /\ start_lon = end_lon
PreviousHeading == IF iter = 1 THEN s_start_heading ELSE headings[iter - 1]

\* C1: the returned path starts exactly at A (start_lat, start_lon) and ends
\* exactly at B (end_lat, end_lon), whatever bearings the oracle returned.
C1_EndpointFidelity ==
    pc = "done" =>
        /\ Len(full_lats) > 0 /\ Len(full_lons) > 0
        /\ full_lats[1] = start_lat /\ full_lons[1] = start_lon
        /\ Last(full_lats) = end_lat /\ Last(full_lons) = end_lon

C1_Witness ==
    /\ pc = "done" /\ ~Degenerate
    /\ Len(full_lats) >= 5
    /\ <<Last(phase_2_lats_recalculated), Last(phase_2_lons_recalculated)>>
          # <<end_lat, end_lon>>

\* C2 (as claimed): when A = B the returned path has exactly one point.
C2_SinglePoint ==
    (pc = "done" /\ Degenerate) => Len(full_lats) = 1

\* C2 (amended): when A = B the call returns (no error, no endless loop) a
\* path of exactly four points: each of the two stitched segments holds its
\* start point and the point of one zero-length step, since n = max(1, 0) = 1.
C2_FourPoints ==
    (pc = "done" /\ Degenerate) =>
        /\ Len(full_lats) = 4 /\ Len(full_lons) = 4
        /\ Len(phase_1_lats_recalculated) = 2
        /\ Len(phase_2_lats_recalculated) = 2

C2_Witness ==
    /\ pc = "done" /\ Degenerate
    /\ total_distance = 0 /\ iter = 1
    /\ Len(full_lats) = 4

\* C3: in the returned path the last point of the corrected forward segment
\* and the last point grown by the corrected backward segment (the first
\* point of its reversal) are the same point.
C3_JunctionShared ==
    pc = "done" =>
        /\ Last(phase_1_lats_recalculated) = Last(phase_2_lats_recalculated)
        /\ Last(phase_1_lons_recalculated) = Last(phase_2_lons_recalculated)
        /\ full_lats[Len(phase_1_lats_recalculated)]
              = full_lats[Len(phase_1_lats_recalculated) + 1]
        /\ full_lons[Len(phase_1_lons_recalculated)]
              = full_lons[Len(phase_1_lons_recalculated) + 1]

\* C4: in every loop iteration the amount added to the running heading has
\* absolute value at most MAX_TURN_RATE.
C4_TurnRateBound ==
    [][iter' = iter + 1 => Abs(heading' - heading) <= Deg(MAX_TURN_RATE)]_vars

C4_Witness ==
    /\ InSegment /\ iter >= 1
    /\ Abs(heading_change) > Deg(MAX_TURN_RATE)
    /\ Abs(heading - PreviousHeading) = Deg(MAX_TURN_RATE)

\* C5: every heading passed to the oracle's direct operation lies in
\* [0, 360).
C5_DirectHeadingNormalized ==
    (InSegment /\ iter >= 1) =>
        \A i \in 1..Len(headings) : headings[i] >= 0 /\ headings[i] < Deg(360)

\* C6: every segment loop runs at most n = max(1, floor(total_distance /
\* POINT_INTERVAL_METERS)) iterations, generate_complete_path finishes after
\* exactly four segment runs, and every call terminates.
C6_Terminates ==
    /\ [](/\ iter <= StepBudget(total_distance)
          /\ calls <= 4
          /\ (pc = "done" => calls = 4))
    /\ <>(pc = "done")

C6_Witness ==
    /\ pc = "done" /\ calls = 4
    /\ n_points >= 2 /\ iter = n_points
    /\ \A i \in 1..Len(headings) : ~WithinTolerance(headings[i], s_end_heading)

\* C7: the segment built by calculate_path_segment begins with the start
\* point, is never empty, and has at most n+1 points, n being computed from
\* the start-to-end distance.
C7_SegmentShape ==
    InSegment =>
        /\ Len(lats) >= 1 /\ Len(lons) >= 1
        /\ lats[1] = s_start_lat /\ lons[1] = s_start_lon
        /\ Len(lats) <= StepBudget(InverseS12(s_start_lat, s_start_lon,
                                              s_end_lat, s_end_lon)) + 1
        /\ Len(lons) = Len(lats)

C7_Witness ==
    /\ pc = "ret" /\ n_points >= 2
    /\ Len(lats) = n_points + 1
    /\ lats[1] = s_start_lat /\ lons[1] = s_start_lon

\* C8: the junction point targeted by the recalculated forward segment is
\* the last point of the pass-1 backward segment P2, in latitude and in
\* longitude, for every end point B.
C8_JunctionIsEndOfPhase2 ==
    Len(phase_2_lats) > 0 =>
        /\ end_of_phase_2_lat = Last(phase_2_lats)
        /\ end_of_phase_2_lon = Last(phase_2_lons)

\* C9: the loop stops at the first step after which |heading - end_heading|
\* < 0.1, even before n steps; no point is appended after that step; when no
\* step satisfies the test the segment has exactly n+1 points.
C9_EarlyTermination ==
    InSegment =>
        /\ Len(lats) = Len(headings) + 1
        /\ \A i \in 1..(Len(headings) - 1) :
              ~WithinTolerance(headings[i], s_end_heading)
        /\ pc = "loop" =>
              \A i \in 1..Len(headings) : ~WithinTolerance(headings[i], s_end_heading)
        /\ (pc = "ret" /\ \A i \in 1..Len(headings) :
                             ~WithinTolerance(headings[i], s_end_heading))
              => Len(lats) = StepBudget(total_distance) + 1

C9_Witness ==
    /\ pc = "ret"
    /\ iter >= 1 /\ iter < n_points
    /\ WithinTolerance(heading, s_end_heading)
    /\ heading # s_end_heading

\* C10 (as claimed): heading_change lies in (-180, +180].
C10_UpperClosed ==
    (InSegment /\ iter >= 1) =>
        heading_change > 0 - Deg(180) /\ heading_change <= Deg(180)

\* C10 (amended): heading_change lies in [-180, +180): it is never +180, and
\* a difference of exactly half a turn is reported as -180.
C10_LowerClosed ==
    (InSegment /\ iter >= 1) =>
        /\ heading_change >= 0 - Deg(180) /\ heading_change < Deg(180)
        /\ (target_heading - PreviousHeading - heading_change) % Deg(360) = 0
        /\ (Abs(target_heading - PreviousHeading) % Deg(360) = Deg(180)
              => heading_change = 0 - Deg(180))

C10_Witness ==
    /\ InSegment /\ iter >= 1
    /\ target_heading - PreviousHeading = Deg(180)
    /\ heading_change = 0 - Deg(180)
====
